---- MODULE Spec2Model ----
(***************************************************************************)
(* A model of the ingestion pipeline of usa-congress-monitor:              *)
(*   - the paginated gather walks (src/src/data_collection/                *)
(*     data_collection.py and the older src/src/data_collection.py),       *)
(*   - the HTTP transport's retry policy,                                  *)
(*   - the document resolver CongressionalPDFLink,                         *)
(*   - the bill enrichment Bill.add_bill_details,                          *)
(*   - the pacing functions determine_*_wait,                              *)
(*   - one call of the API client CDGClient.                               *)
(* Each component has its own specification (SpecWalk, SpecHttp, SpecDoc,  *)
(* SpecEnrich, SpecPace, SpecClient); the variables of the other           *)
(* components rest at their initial values.                                *)
(***************************************************************************)
EXTENDS Integers, Sequences, FiniteSets, TLC

VARIABLES
    \* ---- paginated walk (one gather_* call) ----
    gather,        \* which gather function is running ("none" before a call)
    pc,            \* "idle" | "loop" | "done" | "raised"
    offset,        \* the local `offset` of the gather loop
    items,         \* the accumulated list (bills / laws / records)
    total_count,   \* the local `total_count` (NoCount while None)
    result,        \* the returned list, meaningful when pc = "done"
    error,         \* the exception that ended the call ("none" if none)
    from_date,     \* the local from_date of the bills gathers
    to_date,       \* the local to_date of the bills gathers
    paceCalls,     \* number of calls of determine_pagination_wait / determine_wait
    \* history of the walk, read only by the properties
    nreq,          \* number of page requests sent to the server
    lastReq,       \* offset carried by the latest page request
    served,        \* concatenation of the items of all pages served with success
    lastPage,      \* raw items of the latest response
    lastBody,      \* body of the latest response
    firstCount,    \* the count the first response reported (NoCount before it)
    covering,      \* every response so far was a JSON page that starts at the
                   \* requested index and brings items while some remain
    lastFinal,     \* the latest response signalled the end of the results
    lastStatus,    \* status of the latest response
    fetchFailed,   \* some page request ended in a status the client raises on
    nonJson,       \* some response did not declare a JSON content type
    \* ---- HTTP transport (one logical request through a session) ----
    session,       \* "none" | "client" (CDGClient._session) | "doc" (create_session_with_retries)
    httpPc,        \* "idle" | "sending" | "responded" | "failed"
    retriesLeft,   \* urllib3 Retry.total still available
    outcomes,      \* the outcome of every attempt of the request, in order
    \* ---- document resolver (one CongressionalPDFLink) ----
    docPc,         \* "unbuilt" | "session_get" | "got" | "rest" | "failed"
    text,          \* the field `text`
    caller,        \* who runs extract_text_from_pdf: "model_post_init" | "direct"
    response,      \* what session_get returned: a status, or NoResponse for None
    directStatus,  \* how the GET of the current resolution ended: the final
                   \* status, TransportError, or NoResponse while it runs
    returned,      \* the text the latest resolution returned
    firstReturned, \* the text the first resolution returned
    fetches,       \* calls of session_get over the artifact's life
    resolutions,   \* runs of extract_text_from_pdf over the artifact's life
    resDownloads,  \* calls of download_pdf in the current resolution
    files,         \* files on disk: "tmp" (tmp/<name>), "cwd" (./<name>)
    urlNamed,      \* the URL's last path segment is not empty
    terminal,      \* the current resolution ended without obtaining the text:
                   \* a stage failed and no later stage made up for it
    paths,         \* the current resolution's fallback: where the browser saved
                   \* the download, which path was opened, which was removed
    \* ---- enrichment (one Bill.add_bill_details / Amendment.get_amendment_details) ----
    eKind,         \* "none" | "bill" | "amendment"
    ePc,           \* "idle" | "fetch" | "assign" | "full_text" | "returned" | "raised"
    eIdx,          \* position in the endpoint table / in the assignments
    fetched,       \* the dict bill_data / amendment_data: key -> payload
    record,        \* the nested collections of the record: field -> list
    full_text,     \* the field full_text ("None" for Python's None)
    identity,      \* congress, type and number of the record
    eError,        \* the exception that ended the call ("none" if none)
    eReqs,         \* the sub-resource endpoints requested, in order
    eFailed,       \* keys whose request or decoding failed
    textFetches,   \* document fetches made by add_full_text
    \* ---- pacing (one call of determine_*_wait) ----
    paceFn,        \* the function called ("none" before a call)
    pacePc,        \* "idle" | "returned" | "raised"
    elapsed,       \* time.time() - start_time at the call, in seconds
    paceArg,       \* the second argument: an offset or an API call count
    slept,         \* the duration passed to time.sleep, a fraction [num, den];
                   \* num = 0 when the function did not sleep
    \* ---- API client (one call client.get(endpoint) of a CDGClient) ----
    call,          \* the call: its endpoint, the final response, what it
                   \* raised or returned
    meta           \* one call of a get_*_metadata method: the method, the
                   \* pagination link of the response, what it raised or returned

walkVars == <<gather, pc, offset, items, total_count, result, error, from_date,
              to_date, paceCalls, nreq, lastReq, served, lastPage, lastBody,
              firstCount, covering, lastFinal,
              lastStatus, fetchFailed, nonJson>>

httpVars == <<session, httpPc, retriesLeft, outcomes>>

docVars == <<docPc, text, caller, response, directStatus, returned, firstReturned, fetches,
             resolutions, resDownloads, files, urlNamed, terminal, paths>>

enrichVars == <<eKind, ePc, eIdx, fetched, record, full_text, identity, eError,
                eReqs, eFailed, textFetches>>

paceVars == <<paceFn, pacePc, elapsed, paceArg, slept>>

clientVars == <<call, meta>>

vars == <<walkVars, httpVars, docVars, enrichVars, paceVars, clientVars>>

\* ------------------------------------------------------------------ bounds
MaxRequests == 3     \* page requests followed in one walk
MaxPageLen == 2      \* raw items in one page
MaxOffset == 3       \* largest offset / index a response may carry
MaxCount == 2        \* largest pagination.count a response may carry
MaxDay == 2          \* distinct calendar days used as date inputs
MaxResolutions == 2  \* resolutions of one document artifact
MaxElapsed == 8      \* largest elapsed time of a pacing call, in seconds
MaxCalls == 5        \* largest request count of a pacing call

\* --------------------------------------------------------------- constants
NoCount == -1        \* stands for Python's None in total_count
EndOfResults == -1   \* the sentinel next-offset
Unbound == -2        \* the local `offset` before its first assignment
RESULT_LIMIT == 250  \* items asked for per page
NoResponse == -1     \* stands for the None that session_get returns
TransportError == 0  \* the status field of an attempt that got no response
ReadError == 1       \* the status field of an attempt whose response body broke off

\* ------------------------------------------------------------- HTTP client
\* requests.Response.raise_for_status raises HTTPError for 4xx and 5xx.
raise_for_status(status) == status >= 400 /\ status < 600

Statuses == {200, 204, 404, 500}

\* CDGClient(raise_on_error=True): the session's response hook calls
\* raise_for_status on every response.
raise_on_error == TRUE

\* _MethodWrapper.__call__ through the hooked session: the decoded JSON body if
\* the content type is JSON, the raw bytes otherwise, HTTPError on 4xx / 5xx.
client_get_unhooked(resp) ==      \* mutant: the response hook is not installed
    IF resp.json
      THEN [raised |-> "none", kind |-> "json", body |-> resp.body]
      ELSE [raised |-> "none", kind |-> "bytes", body |-> resp.body]

client_get(resp) ==
    IF raise_on_error /\ raise_for_status(resp.status)
      THEN [raised |-> "HTTPError", kind |-> "none", body |-> resp.body]
    ELSE IF resp.json
      THEN [raised |-> "none", kind |-> "json", body |-> resp.body]
      ELSE [raised |-> "none", kind |-> "bytes", body |-> resp.body]

\* ---- one call client.get(endpoint), in full
\* The final response of the call (requests has followed the redirects): its
\* status, whether its content type starts with application/json, whether its
\* body parses as JSON, and the body.
ClientStatuses == {200, 204, 304, 403, 404, 429, 500}
ClientEndpoints == {"bill", "law/118", "amendment"}
ClientBodies == 1..2

ClientResponses ==
    [status : ClientStatuses, json : BOOLEAN, decodable : BOOLEAN, body : ClientBodies]

NoCall ==
    [pc |-> "idle", endpoint |-> "", status |-> 0, json |-> FALSE, decodable |-> FALSE,
     raised |-> "none", errStatus |-> 0, errUrl |-> "", kind |-> "none", body |-> 0]

\* _MethodWrapper.__call__(endpoint): self._method(urljoin(base_url, endpoint));
\* the session's response hook runs raise_for_status, whose HTTPError names the
\* status and the URL; then response.json() if the content type says JSON (it
\* raises JSONDecodeError on a body that is not JSON), response.content otherwise.
method_wrapper_call(endpoint, resp) ==
    LET base == [pc |-> "raised", endpoint |-> endpoint, status |-> resp.status,
                 json |-> resp.json, decodable |-> resp.decodable,
                 raised |-> "none", errStatus |-> 0, errUrl |-> "",
                 kind |-> "none", body |-> 0] IN
    IF raise_on_error /\ raise_for_status(resp.status)
      THEN [base EXCEPT !.raised = "HTTPError", !.errStatus = resp.status,
                        !.errUrl = endpoint]
    ELSE IF resp.json
      THEN IF resp.decodable
             THEN [base EXCEPT !.pc = "returned", !.kind = "json", !.body = resp.body]
             ELSE [base EXCEPT !.raised = "JSONDecodeError"]
      ELSE [base EXCEPT !.pc = "returned", !.kind = "bytes", !.body = resp.body]

\* ------------------------------------------------------------------- dates
YMD == "YYYY-MM-DD"
TS == "YYYY-MM-DDTHH:MM:SSZ"

\* A date string is modelled by its format and the day it names; a timestamp
\* also has a time of day (seconds after midnight).
DateStrings == [fmt : {YMD, TS}, day : 1..MaxDay, secs : {0}]

\* datetime.strptime(date_str, "%Y-%m-%d") accepts only a bare date and raises
\* ValueError on anything else; strftime then writes midnight of that day.
datetime_convert(d) ==
    IF d.fmt = YMD
      THEN [ok |-> TRUE, val |-> [fmt |-> TS, day |-> d.day, secs |-> 0]]
      ELSE [ok |-> FALSE, val |-> d]

\* -------------------------------------------------------- server responses
\* A raw item: the server numbers its items serially, and an item either
\* decodes into its typed record or fails validation.
RawItem(i, v) == [id |-> i, valid |-> v]

FlagSeqs(S) == UNION {[1..n -> S] : n \in 0..MaxPageLen}

\* The page the server sends next, given how many items it has sent so far.
PageOf(first, flags) == [i \in 1..Len(flags) |-> RawItem(first + i, flags[i])]

NoLink == [has |-> FALSE, param |-> FALSE, off |-> 0]
NextLinks ==
    {NoLink, [has |-> TRUE, param |-> FALSE, off |-> 0]}
      \cup {[has |-> TRUE, param |-> TRUE, off |-> o] : o \in 0..MaxOffset}

\* Responses of the list endpoints bill, law/{congress}, amendment:
\* { <items-key>: [...], pagination: { count, next? } }.
ListBodies(first, V) ==
    {[items |-> PageOf(first, f), next |-> l, count |-> c] :
        f \in FlagSeqs(V), l \in NextLinks, c \in 1..MaxCount}

\* Responses of congressional-record: { Results: { Issues, TotalCount, IndexStart } }.
RecordBodies(first) ==
    {[items |-> PageOf(first, f), TotalCount |-> t, IndexStart |-> s] :
        f \in FlagSeqs({TRUE}), t \in 0..MaxOffset, s \in 0..MaxOffset}

Responses(bodies) ==
    {[status |-> 200, json |-> j, body |-> b] : j \in BOOLEAN, b \in bodies}
      \cup {[status |-> s, json |-> TRUE, body |-> b] :
              s \in Statuses \ {200}, b \in {x \in bodies : x.items = <<>>}}

\* ------------------------------------------------------ results of a call
Raise(e) == [raised |-> e, ret |-> <<>>]
Return(t) == [raised |-> "none", ret |-> t]

\* --------------------------------- CDGClient of data_collection/data_collection.py
\* CDGClient.extract_offset: the `offset` query parameter, 0 if there is none.
extract_offset(link) == IF link.param THEN link.off ELSE 0

\* CDGClient.get_laws_metadata.
get_laws_metadata(resp) ==
    LET r == client_get(resp) IN
    IF r.raised # "none" THEN Raise(r.raised)
    ELSE IF r.kind # "json" THEN Raise("AttributeError")
    ELSE IF r.body.next.has
      THEN Return(<<r.body.items, extract_offset(r.body.next), r.body.count>>)
      ELSE Return(<<r.body.items, EndOfResults, 0>>)

\* CDGClient.get_bills_metadata: converts the dates it is given, then asks for
\* the page; with no next link it returns four values.
get_bills_metadata(fd, td, resp) ==
    IF ~datetime_convert(fd).ok \/ ~datetime_convert(td).ok THEN Raise("ValueError")
    ELSE LET r == client_get(resp) IN
         IF r.raised # "none" THEN Raise(r.raised)
         ELSE IF r.kind # "json" THEN Raise("AttributeError")
         ELSE IF r.body.next.has
           THEN Return(<<r.body.items, extract_offset(r.body.next), r.body.count>>)
           ELSE Return(<<r.body.items, r.body, EndOfResults, 0>>)

get_congressional_records_uncapped(resp) ==     \* mutant: the sentinel is never set
    LET r == client_get(resp) IN
    IF r.raised # "none" THEN Raise(r.raised)
    ELSE IF r.kind # "json" THEN Raise("AttributeError")
    ELSE Return(<<r.body.items, r.body.IndexStart + Len(r.body.items), r.body.TotalCount>>)

\* CDGClient.get_bound_congressional_records(self): the method declares no
\* parameter besides self, so a call that passes any keyword argument raises
\* TypeError before the body runs; otherwise it returns the decoded response,
\* one value.
get_bound_congressional_records(kwargs, resp) ==
    IF kwargs # {} THEN Raise("TypeError")
    ELSE LET r == client_get(resp) IN
         IF r.raised # "none" THEN Raise(r.raised)
         ELSE Return(<<r.body>>)

\* CDGClient.get_amendments_metadata: as get_bills_metadata up to the request;
\* three values on both returns.
get_amendments_metadata(fd, td, resp) ==
    IF ~datetime_convert(fd).ok \/ ~datetime_convert(td).ok THEN Raise("ValueError")
    ELSE LET r == client_get(resp) IN
         IF r.raised # "none" THEN Raise(r.raised)
         ELSE IF r.kind # "json" THEN Raise("AttributeError")
         ELSE IF r.body.next.has
           THEN Return(<<r.body.items, extract_offset(r.body.next), r.body.count>>)
           ELSE Return(<<r.body.items, EndOfResults, 0>>)

NoMeta == [fn |-> "none", pc |-> "idle", next |-> NoLink, raised |-> "none", ret |-> <<>>]

\* CDGClient.get_congressional_records.
get_congressional_records(resp) ==
    LET r == client_get(resp) IN
    IF r.raised # "none" THEN Raise(r.raised)
    ELSE IF r.kind # "json" THEN Raise("AttributeError")
    ELSE LET new_offset == r.body.IndexStart + Len(r.body.items) IN
         Return(<<r.body.items,
                  IF new_offset >= r.body.TotalCount THEN EndOfResults ELSE new_offset,
                  r.body.TotalCount>>)

\* ------------------------------------------------ src/src/data_collection.py
\* Bill.model_validate on one raw item of a page.
model_validate(raw) ==
    IF raw.valid THEN [ok |-> TRUE, val |-> [bill |-> raw.id]]
                 ELSE [ok |-> FALSE, val |-> [bill |-> 0]]

\* extract_offset of the older module: parse_qs(...)['offset'][0].
legacy_extract_offset(link) ==
    IF link.param THEN [ok |-> TRUE, val |-> link.off] ELSE [ok |-> FALSE, val |-> 0]

\* retrieve_congress_bills: plain requests.get, every item decoded in one list
\* comprehension.
retrieve_congress_bills(resp) ==
    IF resp.status = 200
      THEN IF ~resp.json THEN Raise("JSONDecodeError")
           ELSE IF \E i \in 1..Len(resp.body.items) : ~model_validate(resp.body.items[i]).ok
             THEN Raise("ValidationError")
           ELSE LET prepared_bills ==
                      [i \in 1..Len(resp.body.items) |->
                          model_validate(resp.body.items[i]).val] IN
                IF resp.body.next.has
                  THEN IF legacy_extract_offset(resp.body.next).ok
                         THEN Return(<<prepared_bills,
                                       legacy_extract_offset(resp.body.next).val,
                                       resp.body.count>>)
                         ELSE Raise("KeyError")
                  ELSE Return(<<prepared_bills, EndOfResults, 0>>)
      ELSE IF raise_for_status(resp.status) THEN Raise("HTTPError")
           ELSE Return(<<>>)       \* falls off the end: returns None

\* ------------------------------------------------ paths of the fallback
\* download_pdf: download_folder = os.path.join(os.getcwd(), "tmp") is where
\* the browser saves; extract_text_from_pdf: open(filename) and
\* os.remove(filename) take the returned bare name, which the working
\* directory resolves.
download_folder == "tmp"
open_folder == "cwd"

NoPaths == [saved |-> "none", opened |-> "none", removed |-> "none"]

\* ------------------------------------------------------------ gather loops
Init ==
    /\ gather = "none" /\ pc = "idle" /\ offset = Unbound /\ items = <<>>
    /\ total_count = NoCount /\ result = <<>> /\ error = "none"
    /\ from_date = [fmt |-> YMD, day |-> 1, secs |-> 0]
    /\ to_date = [fmt |-> YMD, day |-> 1, secs |-> 0]
    /\ paceCalls = 0 /\ nreq = 0 /\ lastReq = 0 /\ served = <<>>
    /\ lastPage = <<>> /\ lastBody = [items |-> <<>>] /\ firstCount = NoCount
    /\ covering = TRUE /\ lastFinal = FALSE /\ lastStatus = 0 /\ fetchFailed = FALSE
    /\ nonJson = FALSE
    \* no request in flight
    /\ session = "none" /\ httpPc = "idle" /\ retriesLeft = 0 /\ outcomes = <<>>
    \* no document artifact constructed yet
    /\ docPc = "unbuilt" /\ text = "" /\ caller = "none" /\ response = NoResponse
    /\ directStatus = NoResponse
    /\ returned = "" /\ firstReturned = "" /\ fetches = 0 /\ resolutions = 0
    /\ resDownloads = 0 /\ files = {} /\ urlNamed = TRUE /\ terminal = FALSE
    /\ paths = NoPaths
    \* no enrichment started
    /\ eKind = "none" /\ ePc = "idle" /\ eIdx = 0 /\ fetched = <<>>
    /\ record = <<>> /\ full_text = "" /\ identity = <<>> /\ eError = "none"
    /\ eReqs = <<>> /\ eFailed = {} /\ textFetches = 0
    \* no pacing call made
    /\ paceFn = "none" /\ pacePc = "idle" /\ elapsed = 0 /\ paceArg = 0
    /\ slept = [num |-> 0, den |-> 1]
    \* no client call made
    /\ call = NoCall /\ meta = NoMeta

WalkFrame == UNCHANGED <<httpVars, docVars, enrichVars, paceVars, clientVars>>

\* The statements before the loop: start = time.time(); the list = []; offset = 0.
EnterLoop(g) ==
    /\ gather' = g /\ pc' = "loop" /\ offset' = 0 /\ items' = <<>>
    /\ total_count' = NoCount
    /\ UNCHANGED <<result, error, paceCalls, nreq, lastReq, served, lastPage,
                   lastBody, firstCount, covering,
                   lastFinal, lastStatus, fetchFailed, nonJson>>

\* What the server's response tells about the walk.
Final(g, resp) ==
    IF g = "gather_congressional_records"
      THEN resp.body.IndexStart + Len(resp.body.items) >= resp.body.TotalCount
      ELSE ~resp.body.next.has

\* The total the response reports: Results.TotalCount, or pagination.count.
ReportedCount(g, resp) ==
    IF g = "gather_congressional_records" THEN resp.body.TotalCount ELSE resp.body.count

\* The server answers the request for index `off` with a JSON page that
\* starts at that index, brings at least one issue while issues remain, and
\* reports the total it reported first.
Covers(g, off, first, resp) ==
    g = "gather_congressional_records" =>
        /\ resp.status = 200 /\ resp.json
        /\ resp.body.IndexStart = off
        /\ off < resp.body.TotalCount => Len(resp.body.items) >= 1
        /\ first # NoCount => resp.body.TotalCount = first

History(g, resp) ==
    /\ nreq' = nreq + 1
    /\ lastReq' = offset
    /\ lastPage' = resp.body.items
    /\ lastBody' = resp.body
    /\ firstCount' = IF nreq = 0 THEN ReportedCount(g, resp) ELSE firstCount
    /\ covering' = (covering /\ Covers(g, offset, firstCount, resp))
    /\ lastStatus' = resp.status
    /\ lastFinal' = Final(g, resp)
    /\ fetchFailed' = (fetchFailed \/ raise_for_status(resp.status))
    /\ nonJson' = (nonJson \/ ~resp.json)
    /\ served' = IF resp.status = 200 /\ resp.json
                   THEN served \o [i \in 1..Len(resp.body.items) |-> resp.body.items[i].id]
                   ELSE served

\* list.extend
extend(list, more) == list \o more

\* The body of the while loop after the page call returned or raised r:
\*   result, offset, count = r; list.extend(result); capture total_count;
\*   pbar.update; determine_pagination_wait(start, offset).
loop_body(r) ==
    IF r.raised # "none"
      THEN /\ pc' = "raised" /\ error' = r.raised
           /\ UNCHANGED <<offset, items, total_count, paceCalls>>
    ELSE IF Len(r.ret) = 0
      THEN /\ pc' = "raised" /\ error' = "TypeError"
           /\ UNCHANGED <<offset, items, total_count, paceCalls>>
    ELSE IF Len(r.ret) # 3
      THEN /\ pc' = "raised" /\ error' = "ValueError"
           /\ UNCHANGED <<offset, items, total_count, paceCalls>>
    ELSE /\ items' = extend(items, r.ret[1])
         /\ offset' = r.ret[2]
         /\ total_count' = IF total_count = NoCount THEN r.ret[3] ELSE total_count
         /\ paceCalls' = paceCalls + 1
         /\ pc' = "loop" /\ UNCHANGED error

\* gather_laws(client, congress): the call up to the loop.
gather_laws ==
    /\ WalkFrame
    /\ pc = "idle"
    /\ EnterLoop("gather_laws")
    /\ UNCHANGED <<from_date, to_date>>

\* One iteration of gather_laws' loop.
gather_laws_page ==
    /\ WalkFrame
    /\ gather = "gather_laws" /\ pc = "loop" /\ offset # EndOfResults
    /\ nreq < MaxRequests
    /\ \E resp \in Responses(ListBodies(Len(served), {TRUE})) :
          /\ History(gather, resp)
          /\ loop_body(get_laws_metadata(resp))
    /\ UNCHANGED <<gather, result, from_date, to_date>>

\* gather_congress_bills(client, from_date, to_date) of data_collection/
\* data_collection.py: converts both dates, then enters the loop.
gather_congress_bills ==
    /\ WalkFrame
    /\ pc = "idle"
    /\ \E fd \in DateStrings, td \in DateStrings :
          IF datetime_convert(fd).ok /\ datetime_convert(td).ok
            THEN /\ from_date' = datetime_convert(fd).val
                 /\ to_date' = datetime_convert(td).val
                 /\ EnterLoop("gather_congress_bills")
            ELSE /\ gather' = "gather_congress_bills"
                 /\ pc' = "raised" /\ error' = "ValueError"
                 /\ from_date' = IF datetime_convert(fd).ok
                                   THEN datetime_convert(fd).val ELSE fd
                 /\ to_date' = td
                 /\ UNCHANGED <<offset, items, total_count, result, paceCalls, nreq,
                                lastReq, served, lastPage, lastBody, firstCount,
                                covering, lastFinal, lastStatus,
                                fetchFailed, nonJson>>

\* One iteration of the loop of gather_congress_bills.  get_bills_metadata
\* converts the dates before it sends anything: when that raises, no request
\* reaches the server.
gather_congress_bills_page ==
    /\ WalkFrame
    /\ gather = "gather_congress_bills" /\ pc = "loop" /\ offset # EndOfResults
    /\ nreq < MaxRequests
    /\ IF ~datetime_convert(from_date).ok \/ ~datetime_convert(to_date).ok
         THEN /\ loop_body(Raise("ValueError"))
              /\ UNCHANGED <<nreq, lastReq, served, lastPage, lastBody, firstCount,
                             covering, lastFinal, lastStatus,
                             fetchFailed, nonJson>>
         ELSE \E resp \in Responses(ListBodies(Len(served), {TRUE})) :
                 /\ History(gather, resp)
                 /\ loop_body(get_bills_metadata(from_date, to_date, resp))
    /\ UNCHANGED <<gather, result, from_date, to_date>>

\* gather_congressional_records(client).
gather_congressional_records ==
    /\ WalkFrame
    /\ pc = "idle"
    /\ EnterLoop("gather_congressional_records")
    /\ UNCHANGED <<from_date, to_date>>

gather_congressional_records_page ==
    /\ WalkFrame
    /\ gather = "gather_congressional_records" /\ pc = "loop" /\ offset # EndOfResults
    /\ nreq < MaxRequests
    /\ \E resp \in Responses(RecordBodies(Len(served))) :
          /\ History(gather, resp)
          /\ loop_body(get_congressional_records(resp))
    /\ UNCHANGED <<gather, result, from_date, to_date>>

\* gather_congress_bills(from_date, to_date) of src/src/data_collection.py: the
\* dates go to the API as given.
legacy_gather_congress_bills ==
    /\ WalkFrame
    /\ pc = "idle"
    /\ \E fd \in DateStrings, td \in DateStrings :
          /\ from_date' = fd /\ to_date' = td
    /\ EnterLoop("legacy_gather_congress_bills")

legacy_gather_congress_bills_page ==
    /\ WalkFrame
    /\ gather = "legacy_gather_congress_bills" /\ pc = "loop" /\ offset # EndOfResults
    /\ nreq < MaxRequests
    /\ \E resp \in Responses(ListBodies(Len(served), BOOLEAN)) :
          /\ History(gather, resp)
          /\ loop_body(retrieve_congress_bills(resp))
    /\ UNCHANGED <<gather, result, from_date, to_date>>

\* gather_bound_congressional_records(client).
gather_bound_congressional_records ==
    /\ WalkFrame
    /\ pc = "idle"
    /\ EnterLoop("gather_bound_congressional_records")
    /\ UNCHANGED <<from_date, to_date>>

\* One iteration: client.get_bound_congressional_records(offset=offset).  When
\* the call cannot be bound to the method, no request reaches the server.
gather_bound_congressional_records_page ==
    /\ WalkFrame
    /\ gather = "gather_bound_congressional_records" /\ pc = "loop"
    /\ offset # EndOfResults /\ nreq < MaxRequests
    /\ LET kwargs == {"offset"}
           none == CHOOSE resp \in Responses(ListBodies(0, {TRUE})) : TRUE IN
       IF get_bound_congressional_records(kwargs, none).raised = "TypeError"
         THEN /\ loop_body(get_bound_congressional_records(kwargs, none))
              /\ UNCHANGED <<nreq, lastReq, served, lastPage, lastBody, firstCount,
                             covering, lastFinal, lastStatus, fetchFailed, nonJson>>
         ELSE \E resp \in Responses(ListBodies(Len(served), {TRUE})) :
                 /\ History(gather, resp)
                 /\ loop_body(get_bound_congressional_records(kwargs, resp))
    /\ UNCHANGED <<gather, result, from_date, to_date>>

\* The loop condition is false: pbar.close(); return the list.
gather_return ==
    /\ WalkFrame
    /\ pc = "loop" /\ offset = EndOfResults
    /\ pc' = "done" /\ result' = items
    /\ UNCHANGED <<gather, offset, items, total_count, error, from_date, to_date,
                   paceCalls, nreq, lastReq, served, lastPage, lastBody, firstCount,
                   covering, lastFinal, lastStatus,
                   fetchFailed, nonJson>>

NextWalk ==
    \/ gather_laws
    \/ gather_laws_page
    \/ gather_congress_bills
    \/ gather_congress_bills_page
    \/ gather_congressional_records
    \/ gather_congressional_records_page
    \/ legacy_gather_congress_bills
    \/ legacy_gather_congress_bills_page
    \/ gather_bound_congressional_records
    \/ gather_bound_congressional_records_page
    \/ gather_return

SpecWalk == Init /\ [][NextWalk]_vars

\* The walk over the record issues on its own.  The loop is sequential code:
\* while an iteration or the return is the next statement, it is executed.
NextRecords ==
    \/ gather_congressional_records
    \/ gather_congressional_records_page
    \/ gather_return

SpecRecords ==
    /\ Init /\ [][NextRecords]_vars
    /\ WF_vars(gather_congressional_records_page)
    /\ WF_vars(gather_return)

\* ------------------------------------------------- properties of the walks
\* The serial numbers of a list of raw or decoded items.
ItemIds(list) ==
    [i \in 1..Len(list) |->
        IF "id" \in DOMAIN list[i] THEN list[i].id ELSE list[i].bill]

NewWalks == {"gather_congress_bills", "gather_laws", "gather_congressional_records"}

\* C1 (pagination termination): in gather_congress_bills, gather_laws and
\* gather_congressional_records, while every page request is answered by a JSON
\* page, the call does not raise, and when it returns, the last page signalled
\* the end and the returned list is the concatenation of all pages in order.
C1_PaginationTermination ==
    (gather \in NewWalks /\ offset # Unbound /\ ~fetchFailed /\ ~nonJson) =>
        /\ pc # "raised"
        /\ pc = "done" => (lastFinal /\ ItemIds(result) = served)

\* The same statement without gather_congress_bills.
C1_LawsAndRecords ==
    (gather \in NewWalks \ {"gather_congress_bills"} /\ ~fetchFailed /\ ~nonJson) =>
        /\ pc # "raised"
        /\ pc = "done" => (lastFinal /\ ItemIds(result) = served)

\* C2 (offset monotonicity): after each page the next offset is the sentinel
\* or strictly greater than the offset just requested.
C2_OffsetMonotonic ==
    (pc = "loop" /\ nreq >= 1) => (offset = EndOfResults \/ offset > lastReq)

\* C4 (validation skip): when a page of the decoding gather holds exactly one
\* item that fails validation, the call does not raise a validation error and
\* the valid items of the page, decoded and in order, end the accumulated list.
InvalidIn(page) == {i \in 1..Len(page) : ~page[i].valid}
ValidIds(page) == SelectSeq([i \in 1..Len(page) |-> IF page[i].valid THEN page[i].id ELSE 0],
                            LAMBDA x : x # 0)
EndsWith(list, tail) ==
    /\ Len(list) >= Len(tail)
    /\ SubSeq(list, Len(list) - Len(tail) + 1, Len(list)) = tail

C4_ValidationSkip ==
    (/\ gather = "legacy_gather_congress_bills" /\ nreq >= 1
     /\ lastStatus = 200 /\ ~nonJson
     /\ Cardinality(InvalidIn(lastPage)) = 1) =>
        /\ error # "ValidationError"
        /\ error = "none" => EndsWith(ItemIds(items), ValidIds(lastPage))

\* C8 (soft-failure propagation): a gather call that has entered its loop
\* raises only when a page request failed.
C8_RaisesOnlyOnPageFetch ==
    (pc = "raised" /\ offset # Unbound) => (fetchFailed \/ nonJson)

\* C9 (page-fetch failure is fatal): once a page request has ended in a status
\* the client raises on, the call has raised HTTPError, nothing was returned,
\* and no action of the walk is enabled any more.
C9_PageFetchFatal ==
    fetchFailed => (pc = "raised" /\ error = "HTTPError" /\ result = <<>>)

\* A later page of gather_laws failed after items had been accumulated.
C9_Witness ==
    /\ gather = "gather_laws" /\ fetchFailed /\ nreq >= 2 /\ Len(items) >= 1
    /\ pc = "raised"


\* =========================================================== HTTP transport
\* One attempt of a request ends in a response (a status, with or without a
\* Retry-After header), in a transport error before a response was received
\* (connection refused or reset, timeout), or in a failure while the body of
\* the response is read (incomplete read, chunked-encoding error).
AttemptStatuses == {200, 403, 404, 413, 429, 500, 502, 503, 504}

Outcomes ==
    {[status |-> st, retry_after |-> FALSE] :
        st \in AttemptStatuses \cup {TransportError, ReadError}}
      \cup {[status |-> st, retry_after |-> TRUE] : st \in {413, 429, 503}}

\* create_session_with_retries(retries=3, ...): Retry(total=retries, read=retries,
\* connect=retries, ...); requests.Session() as CDGClient builds it mounts the
\* default adapter, whose Retry is Retry(0, read=False).
retries == 3

RetryTotal_more(s) == IF s = "doc" THEN retries + 1 ELSE 1   \* mutant: one retry more

RetryTotal(s) == IF s = "doc" THEN retries ELSE 0

status_forcelist_with_403(s) ==        \* mutant: 403 is retried as well
    IF s = "doc" THEN {403, 500, 502, 504} ELSE {}

\* status_forcelist=(500, 502, 504) for the document session, empty by default.
status_forcelist(s) == IF s = "doc" THEN {500, 502, 504} ELSE {}

\* urllib3 Retry.RETRY_AFTER_STATUS_CODES, honoured as respect_retry_after_header
\* is left at its default.
RETRY_AFTER_STATUS_CODES == {413, 429, 503}

\* urllib3 Retry.is_retry for a GET, with `left` the remaining total.
is_retry(s, left, o) ==
    \/ o.status \in status_forcelist(s)
    \/ left > 0 /\ o.retry_after /\ o.status \in RETRY_AFTER_STATUS_CODES

\* session.get(url) begins: a fresh Retry object for the request.
send(s) ==
    /\ session' = s /\ httpPc' = "sending"
    /\ retriesLeft' = RetryTotal(s) /\ outcomes' = <<>>

\* One attempt.  A transport error or a retryable response consumes one unit of
\* the total; when none is left the error is raised (MaxRetryError) or, as
\* raise_on_status=False, the last response is returned.  The body is read
\* by requests after urllib3 has handed the response over, so a failure there
\* is raised at once.
http_attempt ==
    /\ httpPc = "sending"
    /\ \E o \in Outcomes :
          /\ outcomes' = Append(outcomes, o)
          /\ IF o.status = ReadError
               THEN httpPc' = "failed" /\ UNCHANGED retriesLeft
             ELSE IF o.status = TransportError
               THEN IF retriesLeft - 1 < 0
                      THEN httpPc' = "failed" /\ UNCHANGED retriesLeft
                      ELSE httpPc' = "sending" /\ retriesLeft' = retriesLeft - 1
             ELSE IF is_retry(session, retriesLeft, o)
               THEN IF retriesLeft - 1 < 0
                      THEN httpPc' = "responded" /\ UNCHANGED retriesLeft
                      ELSE httpPc' = "sending" /\ retriesLeft' = retriesLeft - 1
             ELSE httpPc' = "responded" /\ UNCHANGED retriesLeft
    /\ UNCHANGED session

Last(seq) == seq[Len(seq)]

\* ---- the transport on its own: any session, one logical request at a time
http_request ==
    /\ httpPc \in {"idle", "responded", "failed"}
    /\ \E s \in {"client", "doc"} : send(s)
    /\ UNCHANGED <<walkVars, docVars, enrichVars, paceVars, clientVars>>

http_request_attempt ==
    /\ http_attempt
    /\ UNCHANGED <<walkVars, docVars, enrichVars, paceVars, clientVars>>

NextHttp == http_request \/ http_request_attempt

SpecHttp == Init /\ [][NextHttp]_vars

\* C21 (record-issue cursor): after each page of gather_congressional_records
\* the next offset is IndexStart + len(Issues) if that is below TotalCount and
\* the sentinel otherwise; and a walk whose server keeps answering with
\* covering pages comes to its return, with all the issues served, in order.
C21_RecordCursor ==
    /\ [](  (gather = "gather_congressional_records" /\ pc = "loop" /\ nreq >= 1) =>
              LET new_offset == lastBody.IndexStart + Len(lastBody.items) IN
              offset = IF new_offset < lastBody.TotalCount THEN new_offset
                                                          ELSE EndOfResults )
    /\ (gather = "gather_congressional_records" /\ pc = "loop" /\ covering)
          ~> (~covering \/ (pc = "done" /\ ItemIds(result) = served))

\* A walk over covering pages has returned after more than one page.
C21_Witness ==
    /\ gather = "gather_congressional_records" /\ pc = "done" /\ covering
    /\ nreq >= 2 /\ Len(result) >= 2

\* C23 (total-count capture): once the first page of a walk has been taken in,
\* the local total_count is the count the first response reported, and it
\* keeps that value to the end of the walk.
C23_TotalCountCapture ==
    /\ (nreq >= 1 /\ pc \in {"loop", "done"}) => total_count # NoCount
    /\ (nreq >= 1 /\ total_count # NoCount) => total_count = firstCount

\* C25 (pacing sits between pages): when the walk is about to request a
\* further page, the pacing wait has been called once per page requested so
\* far; when a page has brought the sentinel, it has been called once less
\* than pages were requested: not after the last page.
C25_PacingBetweenPages ==
    /\ (pc = "loop" /\ offset # EndOfResults) => paceCalls = nreq
    /\ (pc \in {"loop", "done"} /\ offset = EndOfResults) => paceCalls = nreq - 1

\* C26 (bound-record walk): gather_bound_congressional_records, while every
\* page request is answered by a JSON page, does not raise; each request
\* carries the current offset; and when the call returns, the last page
\* signalled the end and the list returned holds the records of all pages in
\* order.
C26_BoundRecordWalk ==
    (gather = "gather_bound_congressional_records" /\ ~fetchFailed /\ ~nonJson) =>
        /\ pc # "raised"
        /\ pc = "done" => (nreq >= 1 /\ lastFinal /\ ItemIds(result) = served)

\* C14 (date conversion at the gather boundary): gather_congress_bills given
\* two YYYY-MM-DD dates (it then gets past its own conversions and binds
\* `offset`) does not end in ValueError, and every page request it sends
\* carries both dates as timestamps.
C14_DateConversion ==
    (gather = "gather_congress_bills" /\ offset # Unbound) =>
        /\ error # "ValueError"
        /\ nreq >= 1 => (from_date.fmt = TS /\ to_date.fmt = TS)

\* ============================================================ API client
\* client.get(endpoint) on a CDGClient built with the default raise_on_error.
client_call ==
    /\ \E e \in ClientEndpoints, resp \in ClientResponses :
          call' = method_wrapper_call(e, resp)
    /\ UNCHANGED <<meta, walkVars, httpVars, docVars, enrichVars, paceVars>>

\* The outcome r of a metadata method called on a response with link `next`.
metadata_result(fn, next, r) ==
    [fn |-> fn, pc |-> IF r.raised = "none" THEN "returned" ELSE "raised",
     next |-> next, raised |-> r.raised, ret |-> r.ret]

\* client.get_bills_metadata(from_date, to_date, offset) called on its own.
call_get_bills_metadata ==
    /\ \E fd \in DateStrings, td \in DateStrings,
          resp \in Responses(ListBodies(0, {TRUE})) :
          meta' = metadata_result("get_bills_metadata", resp.body.next,
                                  get_bills_metadata(fd, td, resp))
    /\ UNCHANGED <<call, walkVars, httpVars, docVars, enrichVars, paceVars>>

\* client.get_laws_metadata(congress, offset).
call_get_laws_metadata ==
    /\ \E resp \in Responses(ListBodies(0, {TRUE})) :
          meta' = metadata_result("get_laws_metadata", resp.body.next,
                                  get_laws_metadata(resp))
    /\ UNCHANGED <<call, walkVars, httpVars, docVars, enrichVars, paceVars>>

\* client.get_amendments_metadata(from_date, to_date, offset).
call_get_amendments_metadata ==
    /\ \E fd \in DateStrings, td \in DateStrings,
          resp \in Responses(ListBodies(0, {TRUE})) :
          meta' = metadata_result("get_amendments_metadata", resp.body.next,
                                  get_amendments_metadata(fd, td, resp))
    /\ UNCHANGED <<call, walkVars, httpVars, docVars, enrichVars, paceVars>>

NextMeta ==
    \/ call_get_bills_metadata
    \/ call_get_laws_metadata
    \/ call_get_amendments_metadata

SpecMeta == Init /\ [][NextMeta]_vars

NextClient == client_call

SpecClient == Init /\ [][NextClient]_vars

\* C11 (a persistent non-2xx surfaces as an error): a call whose final response
\* is not 2xx returns no body and raises an error that carries the status and
\* the endpoint; a call whose final response is 2xx does not raise.
C11_Non2xxRaises ==
    call.pc # "idle" =>
        IF call.status \in 200..299
          THEN call.pc = "returned" /\ call.raised = "none"
          ELSE /\ call.pc = "raised" /\ call.kind = "none"
               /\ call.raised = "HTTPError"
               /\ call.errStatus = call.status /\ call.errUrl = call.endpoint

\* C22 (end-of-results signalling): a metadata method that returns, returns
\* three values; the second is the sentinel exactly when the response has no
\* next link, and the offset parameter of the link when the link has one.
C22_EndOfResultsSignal ==
    meta.pc = "returned" =>
        /\ Len(meta.ret) = 3
        /\ (meta.ret[2] = EndOfResults) <=> ~meta.next.has
        /\ (meta.next.has /\ meta.next.param) => meta.ret[2] = meta.next.off

\* ======================================================= document resolver
\* CongressionalPDFLink of data_structures/congressional_records.py.
InputTexts == {"", "given"}

\* What PdfReader(...) and the page loop make of a document: an exception
\* before any page was read, an exception after some pages were added to the
\* local `text`, no text at all, or the text of every page.
ParseOutcomes == {"raise", "partial", "empty", "text"}

\* What download_pdf does: raises, or returns the URL's last segment with the
\* browser having saved the file under ./tmp or not.
DownloadOutcomes == {"raise", "saved", "nofile"}

\* extract_text_from_pdf up to the call of session_get, which creates a new
\* session with retries and sends the GET.
begin_resolution(who) ==
    /\ caller' = who /\ docPc' = "session_get"
    /\ fetches' = fetches + 1 /\ resolutions' = resolutions + 1
    /\ resDownloads' = 0 /\ response' = NoResponse /\ directStatus' = NoResponse
    /\ terminal' = FALSE /\ paths' = NoPaths
    /\ send("doc")

\* Construction: pydantic fills the fields and calls model_post_init, which
\* resolves the text only if the field is empty.
model_post_init_body(t) ==
    IF t = ""
      THEN /\ begin_resolution("model_post_init")
           /\ text' = t
           /\ UNCHANGED <<returned, firstReturned>>
      ELSE /\ text' = t /\ docPc' = "rest"
           /\ UNCHANGED <<caller, response, directStatus, returned, firstReturned,
                          fetches, resolutions, resDownloads, terminal, paths,
                          httpVars>>

construct ==
    /\ docPc = "unbuilt"
    /\ \E t \in InputTexts, named \in BOOLEAN, cwd \in BOOLEAN :
          /\ urlNamed' = named
          /\ files' = IF cwd /\ named THEN {"cwd"} ELSE {}
          /\ model_post_init_body(t)
    /\ UNCHANGED <<walkVars, enrichVars, paceVars, clientVars>>

\* The same artifact validated again (model_validate of its dumped fields):
\* model_post_init runs on the current value of `text`.
revalidate ==
    /\ docPc = "rest" /\ resolutions < MaxResolutions
    /\ model_post_init_body(text)
    /\ UNCHANGED <<files, urlNamed, walkVars, enrichVars, paceVars, clientVars>>

\* A further call of extract_text_from_pdf on the artifact.
extract_text_from_pdf ==
    /\ docPc = "rest" /\ resolutions < MaxResolutions
    /\ begin_resolution("direct")
    /\ UNCHANGED <<text, returned, firstReturned, files, urlNamed, walkVars,
                   enrichVars, paceVars, clientVars>>

\* One attempt of the GET inside session_get.
session_get_attempt ==
    /\ docPc = "session_get"
    /\ http_attempt
    /\ UNCHANGED <<docVars, walkVars, enrichVars, paceVars, clientVars>>

\* session_get returns: raise_for_status turns 4xx / 5xx into HTTPError, and
\* every exception is caught and answered with None.
session_get_result(pcnow, out) ==
    IF pcnow = "failed" THEN NoResponse
    ELSE IF raise_for_status(Last(out).status) THEN NoResponse
    ELSE Last(out).status

session_get_return ==
    /\ docPc = "session_get" /\ httpPc \in {"responded", "failed"}
    /\ response' = session_get_result(httpPc, outcomes)
    /\ directStatus' = Last(outcomes).status
    /\ docPc' = "got"
    \* the session and its Retry object go out of scope
    /\ session' = "none" /\ httpPc' = "idle" /\ retriesLeft' = 0 /\ outcomes' = <<>>
    /\ UNCHANGED <<text, caller, returned, firstReturned, fetches, resolutions,
                   resDownloads, files, urlNamed, terminal, paths, walkVars, enrichVars, paceVars,
                   clientVars>>

\* extract_text_from_pdf has come to its return or has raised.
finish(t, raised) ==
    IF raised
      THEN /\ docPc' = "failed"
           /\ UNCHANGED <<text, returned, firstReturned>>
      ELSE /\ docPc' = "rest"
           /\ returned' = t
           /\ firstReturned' = IF resolutions = 1 THEN t ELSE firstReturned
           /\ text' = IF caller = "model_post_init" THEN t ELSE text

\* download_pdf(self.url); if filename: open(filename), read every page,
\* os.remove(filename).  The browser saves under ./tmp while open and remove
\* take the bare name, relative to the working directory.  `guarded` tells
\* whether the statements sit in the try block.
fallback(d, p, guarded) ==
    /\ resDownloads' = resDownloads + 1
    /\ IF d = "raise"
         THEN /\ finish("", ~guarded) /\ UNCHANGED <<files, paths>> /\ terminal' = TRUE
       ELSE LET saved == IF d = "saved" THEN files \cup {"tmp"} ELSE files
                log == [paths EXCEPT !.saved = IF d = "saved" THEN download_folder
                                                               ELSE "none"] IN
            IF ~urlNamed
              THEN /\ files' = saved /\ finish("", FALSE) /\ terminal' = TRUE
                   /\ paths' = log
            ELSE IF open_folder \notin saved                      \* FileNotFoundError
              THEN /\ files' = saved /\ finish("", ~guarded) /\ terminal' = TRUE
                   /\ paths' = log
            ELSE IF p = "raise"
              THEN /\ files' = saved /\ finish("", ~guarded) /\ terminal' = TRUE
                   /\ paths' = [log EXCEPT !.opened = open_folder]
            ELSE IF p = "partial"
              THEN /\ files' = saved /\ finish("part", ~guarded) /\ terminal' = TRUE
                   /\ paths' = [log EXCEPT !.opened = open_folder]
            ELSE /\ files' = saved \ {open_folder}
                 /\ finish(IF p = "text" THEN "file" ELSE "", FALSE)
                 /\ terminal' = FALSE
                 /\ paths' = [log EXCEPT !.opened = open_folder, !.removed = open_folder]

response_is_none_never(r) == FALSE      \* mutant: the None test is missing

\* if response is None:
response_is_none(r) == r = NoResponse

\* The rest of extract_text_from_pdf once session_get has returned.
extract_after_get ==
    /\ docPc = "got"
    /\ \E d \in DownloadOutcomes, p \in ParseOutcomes :
          IF response_is_none(response)
            THEN fallback(d, p, TRUE)
          ELSE IF response # 403
            THEN /\ finish(IF p = "text" THEN "body" ELSE "", p \in {"raise", "partial"})
                 /\ terminal' = (p \in {"raise", "partial"})
                 /\ UNCHANGED <<resDownloads, files, paths>>
          ELSE fallback(d, p, FALSE)
    /\ UNCHANGED <<caller, response, directStatus, fetches, resolutions, urlNamed,
                   httpVars, walkVars, enrichVars, paceVars, clientVars>>

NextDoc ==
    \/ construct
    \/ revalidate
    \/ extract_text_from_pdf
    \/ session_get_attempt
    \/ session_get_return
    \/ extract_after_get

SpecDoc == Init /\ [][NextDoc]_vars

\* ============================================================== enrichment
\* Bill.add_bill_details and Amendment.get_amendment_details of
\* data_structures/bills.py.

\* additional_bill_data / additional_amendment_data: key -> endpoint, in the
\* order the dict is written.
BillEndpoints ==
    << <<"actions", "actions">>, <<"amendments", "amendments">>,
       <<"committees", "committees">>, <<"cosponsors", "cosponsors">>,
       <<"relatedBills", "relatedbills">>, <<"subjects", "subjects">>,
       <<"summaries", "summaries">>, <<"textVersions", "text">>,
       <<"titles", "titles">> >>

AmendmentEndpoints ==
    << <<"actions", "actions">>, <<"cosponsors", "cosponsors">>,
       <<"textVersions", "text">>, <<"amendments", "amendments">> >>

Endpoints(k) == IF k = "bill" THEN BillEndpoints ELSE AmendmentEndpoints

\* The assignments after the loop: field <- decoded fetched[key], in order.
BillAssignments ==
    << <<"actions", "actions">>, <<"amendments", "amendments">>,
       <<"cosponsors", "cosponsors">>, <<"related_bills", "relatedBills">>,
       <<"subjects", "subjects">>, <<"summaries", "summaries">>,
       <<"text_versions", "textVersions">>, <<"titles", "titles">> >>

AmendmentAssignments ==
    << <<"actions", "actions">>, <<"cosponsors", "cosponsors">>,
       <<"text_versions", "textVersions">> >>

Assignments(k) == IF k = "bill" THEN BillAssignments ELSE AmendmentAssignments

\* The nested collections the classes declare.
BillFields == {"actions", "amendments", "committees", "cosponsors", "related_bills",
               "subjects", "summaries", "text_versions", "titles"}

AmendmentFields == {"actions", "cosponsors", "text_versions"}

Fields(k) == IF k = "bill" THEN BillFields ELSE AmendmentFields

\* What a sub-resource request can bring: an HTTP error raised by the client, a
\* body without the expected key, or the key with a payload: no rows, rows
\* that decode, rows that fail validation; text versions that decode come
\* with or without a "Formatted Text" format.
Payloads(key) ==
    IF key = "textVersions" THEN {"empty", "pdf", "formatted", "bad"}
                            ELSE {"empty", "rows", "bad"}

SubResponses(key) == {"HTTPError", "nokey"} \cup Payloads(key)

\* [Model(**x) for x in payload], or Subjects(**payload) for the one object.
Row(key, formats) == [of |-> key, formats |-> formats]

decode(key, payload) ==
    IF payload = "bad" THEN [ok |-> FALSE, val |-> <<>>]
    ELSE IF payload = "empty"
      THEN IF key = "subjects" THEN [ok |-> FALSE, val |-> <<>>]   \* policyArea is required
                               ELSE [ok |-> TRUE, val |-> <<>>]
    ELSE IF payload = "pdf" THEN [ok |-> TRUE, val |-> <<Row(key, <<"PDF">>)>>]
    ELSE IF payload = "formatted"
      THEN [ok |-> TRUE, val |-> <<Row(key, <<"PDF", "Formatted Text">>)>>]
    ELSE [ok |-> TRUE, val |-> <<Row(key, <<>>)>>]

Identities == [congress : {118}, type : {"HR", "S"}, number : {"1"}]

\* str.lower() on a bill or amendment type.
lower(t) == IF t = "HR" THEN "hr" ELSE IF t = "S" THEN "s" ELSE t

identity_lowered(id) == [id EXCEPT !.type = lower(id.type)]   \* mutant: type is overwritten

\* The request path is built from copies of the identity fields (congress,
\* type.lower(), number); the fields of the record are read, never written.
identity_after_request(id) == id

\* The nested collections of a record built from its metadata: the defaults
\* of the class, and the subjects the metadata brings.
constructed(k) ==
    [f \in Fields(k) |-> IF f = "subjects" THEN <<Row("metadata", <<>>)>> ELSE <<>>]

last_endpoint_early(k) == Len(Endpoints(k)) - 1   \* mutant: the loop ends one key early

\* for key, endpoint in additional_..._data.items(): the loop ends after the
\* last entry of the table.
last_endpoint(k) == Len(Endpoints(k))

\* The call begins: the record as constructed from its metadata.
enrich_call ==
    /\ ePc = "idle"
    /\ \E k \in {"bill", "amendment"}, id \in Identities :
          /\ eKind' = k /\ identity' = id
          /\ record' = constructed(k)
    /\ ePc' = "fetch" /\ eIdx' = 1 /\ fetched' = <<>>
    /\ UNCHANGED <<full_text, eError, eReqs, eFailed, textFetches>>
    /\ UNCHANGED <<walkVars, httpVars, docVars, paceVars, clientVars>>

\* One iteration of the loop: data = client.get(.../{endpoint}); dict[key] = data[key].
fetch_sub_resource ==
    /\ ePc = "fetch"
    /\ LET key == Endpoints(eKind)[eIdx][1]
           endpoint == Endpoints(eKind)[eIdx][2] IN
       /\ eReqs' = Append(eReqs, endpoint)
       /\ \E resp \in SubResponses(key) :
             IF resp = "HTTPError" \/ resp = "nokey"
               THEN /\ ePc' = "raised"
                    /\ eError' = IF resp = "nokey" THEN "KeyError" ELSE "HTTPError"
                    /\ eFailed' = eFailed \cup {key}
                    /\ UNCHANGED <<eIdx, fetched>>
               ELSE /\ fetched' = (key :> resp) @@ fetched
                    /\ IF eIdx = last_endpoint(eKind)
                         THEN ePc' = "assign" /\ eIdx' = 1
                         ELSE ePc' = "fetch" /\ eIdx' = eIdx + 1
                    /\ UNCHANGED <<eError, eFailed>>
    /\ identity' = identity_after_request(identity)
    /\ UNCHANGED <<eKind, record, full_text, textFetches>>
    /\ UNCHANGED <<walkVars, httpVars, docVars, paceVars, clientVars>>

\* One assignment self.<field> = [Model(**x) for x in dict[key]].
assign_field ==
    /\ ePc = "assign"
    /\ LET field == Assignments(eKind)[eIdx][1]
           key == Assignments(eKind)[eIdx][2]
           d == decode(key, fetched[key]) IN
       IF ~d.ok
         THEN /\ ePc' = "raised" /\ eError' = "ValidationError"
              /\ eFailed' = eFailed \cup {key}
              /\ UNCHANGED <<eIdx, record>>
         ELSE /\ record' = [record EXCEPT ![field] = d.val]
              /\ IF eIdx = Len(Assignments(eKind))
                   THEN ePc' = "full_text" /\ UNCHANGED eIdx
                   ELSE ePc' = "assign" /\ eIdx' = eIdx + 1
              /\ UNCHANGED <<eError, eFailed>>
    /\ UNCHANGED <<eKind, fetched, full_text, identity, eReqs, textFetches>>
    /\ UNCHANGED <<walkVars, httpVars, docVars, paceVars, clientVars>>

\* add_full_text looks for the first format to fetch: type == "Formatted Text"
\* in Bill, "Formatted" in type in Amendment.
HasFormatted(versions) ==
    \E i \in 1..Len(versions) :
        \E j \in 1..Len(versions[i].formats) : versions[i].formats[j] = "Formatted Text"

\* self.full_text = self.add_full_text(client): the text of the first such
\* format, an exception when its retrieval or parsing fails, and None when the
\* loops end without a return.
add_full_text ==
    /\ ePc = "full_text"
    /\ IF HasFormatted(record["text_versions"])
         THEN /\ textFetches' = textFetches + 1
              /\ \E got \in {"html", "raise"} :
                    IF got = "raise"
                      THEN /\ ePc' = "raised" /\ eError' = "Exception"
                           /\ UNCHANGED full_text
                      ELSE /\ ePc' = "returned" /\ full_text' = "visible text"
                           /\ UNCHANGED eError
         ELSE /\ ePc' = "returned" /\ full_text' = "None"
              /\ UNCHANGED <<eError, textFetches>>
    /\ UNCHANGED <<eKind, eIdx, fetched, record, identity, eReqs, eFailed>>
    /\ UNCHANGED <<walkVars, httpVars, docVars, paceVars, clientVars>>

NextEnrich ==
    \/ enrich_call
    \/ fetch_sub_resource
    \/ assign_field
    \/ add_full_text

SpecEnrich == Init /\ [][NextEnrich]_vars

\* ================================================================== pacing
\* determine_pagination_wait and determine_simple_wait of data_collection/
\* data_collection.py, determine_wait of src/src/data_collection.py.  Time is
\* counted in whole seconds; quotients are kept as exact fractions.
RECURSIVE Gcd(_, _)
Gcd(a, b) == IF b = 0 THEN a ELSE Gcd(b, a % b)

Max(a, b) == IF a >= b THEN a ELSE b

Frac(n, d) == [num |-> n \div Gcd(n, d), den |-> d \div Gcd(n, d)]

\* RATE_LIMIT_CONSTANT = 5000 / 60 / 60
RequestsPerHour == 5000
RATE_LIMIT_CONSTANT == Frac(RequestsPerHour, 60 * 60)

\* requests = max(RESULT_LIMIT, offset) / RESULT_LIMIT
PageRequests(off) == Frac(Max(RESULT_LIMIT, off), RESULT_LIMIT)

\* mutant: the distance |RATE_LIMIT_CONSTANT - rate| is slept on every call
wait_time_distance(t, req) ==
    LET R == RATE_LIMIT_CONSTANT
        n == R.num * req.num - R.den * t * req.den
        d == R.den * req.num IN
    IF n >= 0 THEN Frac(n, d) ELSE Frac(-n, d)

\* rate = elapsed_time / requests; if rate < RATE_LIMIT_CONSTANT:
\* time.sleep(RATE_LIMIT_CONSTANT - rate).  `req` is a positive fraction.
wait_time(t, req) ==
    LET R == RATE_LIMIT_CONSTANT
        \* R - t / req = (R.num * req.num - R.den * t * req.den) / (R.den * req.num)
        n == R.num * req.num - R.den * t * req.den
        d == R.den * req.num IN
    IF n > 0 THEN Frac(n, d) ELSE [num |-> 0, den |-> 1]

determine_pagination_wait(t, off) == [raised |-> "none", sleep |-> wait_time(t, PageRequests(off))]

determine_simple_wait(t, api_call_count) ==
    IF api_call_count = 0
      THEN [raised |-> "ZeroDivisionError", sleep |-> [num |-> 0, den |-> 1]]
      ELSE [raised |-> "none", sleep |-> wait_time(t, Frac(api_call_count, 1))]

\* The request count a call is made with.
Requests(fn, arg) ==
    IF fn = "determine_simple_wait" THEN Frac(arg, 1) ELSE PageRequests(arg)

PaceOffsets ==
    {EndOfResults} \cup {k * (RESULT_LIMIT \div 2) : k \in 0..(2 * MaxCalls)}

finish_pace(r) ==
    /\ pacePc' = IF r.raised = "none" THEN "returned" ELSE "raised"
    /\ slept' = r.sleep

call_determine_pagination_wait ==
    /\ \E t \in 0..MaxElapsed, off \in PaceOffsets :
          /\ paceFn' = "determine_pagination_wait" /\ elapsed' = t /\ paceArg' = off
          /\ finish_pace(determine_pagination_wait(t, off))
    /\ UNCHANGED <<walkVars, httpVars, docVars, enrichVars, clientVars>>

\* determine_wait of the older module has the same body.
call_determine_wait ==
    /\ \E t \in 0..MaxElapsed, off \in PaceOffsets :
          /\ paceFn' = "determine_wait" /\ elapsed' = t /\ paceArg' = off
          /\ finish_pace(determine_pagination_wait(t, off))
    /\ UNCHANGED <<walkVars, httpVars, docVars, enrichVars, clientVars>>

call_determine_simple_wait ==
    /\ \E t \in 0..MaxElapsed, n \in 0..MaxCalls :
          /\ paceFn' = "determine_simple_wait" /\ elapsed' = t /\ paceArg' = n
          /\ finish_pace(determine_simple_wait(t, n))
    /\ UNCHANGED <<walkVars, httpVars, docVars, enrichVars, clientVars>>

NextPace ==
    \/ call_determine_pagination_wait
    \/ call_determine_wait
    \/ call_determine_simple_wait

SpecPace == Init /\ [][NextPace]_vars

\* ------------------------------------------------- properties of the pacing
\* C7 (rate pacing): after a pacing call made with n >= 1 requests in elapsed
\* time t, the rate n / (t + sleep) is at most the ceiling RATE_LIMIT_CONSTANT
\* requests per second:  n * den(sleep) * R.den <= R.num * (t * den(sleep) + num(sleep)).
C7_RatePacing ==
    LET req == Requests(paceFn, paceArg)
        R == RATE_LIMIT_CONSTANT IN
    (pacePc = "returned" /\ req.num >= req.den) =>
        req.num * slept.den * R.den
            <= R.num * req.den * (elapsed * slept.den + slept.num)

\* C15 (no wait on the first call): a pacing call made with no time elapsed
\* since the start of the walk does not sleep.
C15_NoWaitOnFirstCall ==
    (pacePc = "returned" /\ elapsed = 0) => slept.num = 0

\* C16 (the pacing controller never fails): no pacing call raises, whatever
\* elapsed time and request count or offset it is made with.
C16_PacingNeverFails ==
    pacePc # "raised"

\* C30 (bounded pacing sleep): a pacing call made with at least one request
\* sleeps for a duration between 0 and RATE_LIMIT_CONSTANT, and the duration
\* is positive exactly when elapsed / requests < RATE_LIMIT_CONSTANT.
C30_BoundedPacingSleep ==
    LET req == Requests(paceFn, paceArg)
        R == RATE_LIMIT_CONSTANT IN
    (pacePc = "returned" /\ req.num >= req.den) =>
        /\ slept.num >= 0 /\ slept.den > 0
        /\ slept.num * R.den <= R.num * slept.den
        /\ (slept.num > 0) <=> (elapsed * req.den * R.den < R.num * req.num)

\* A call made after some time has passed, with several requests issued, has
\* slept a positive duration shorter than RATE_LIMIT_CONSTANT.
C30_Witness ==
    LET req == Requests(paceFn, paceArg)
        R == RATE_LIMIT_CONSTANT IN
    /\ pacePc = "returned" /\ elapsed > 0 /\ req.num > req.den
    /\ slept.num > 0 /\ slept.num * R.den < R.num * slept.den

\* ---------------------------------------------- properties of the enrichment
\* C3 (partial enrichment): when exactly one sub-resource of a bill fails, in
\* its request or in its decoding, add_bill_details still returns, the failed
\* collection is empty and every other one holds what its response decoded to.
C3_PartialEnrichment ==
    (eKind = "bill" /\ ePc \in {"returned", "raised"} /\ Cardinality(eFailed) = 1) =>
        /\ ePc = "returned"
        /\ \A i \in 1..Len(BillAssignments) :
              LET field == BillAssignments[i][1]
                  key == BillAssignments[i][2] IN
              IF key \in eFailed
                THEN record[field] = <<>>
                ELSE record[field] = decode(key, fetched[key]).val

\* C17 (fan-out completeness): when add_bill_details has returned, each of the
\* nine sub-resource endpoints was requested exactly once, in the order of the
\* table, and each nested collection of the bill holds what the response of
\* its sub-resource decodes to.
C17_FanOutComplete ==
    LET FieldOfKey(key) ==
            IF key = "relatedBills" THEN "related_bills"
            ELSE IF key = "textVersions" THEN "text_versions"
            ELSE key IN
    (eKind = "bill" /\ ePc = "returned") =>
        /\ eReqs = [i \in 1..Len(BillEndpoints) |-> BillEndpoints[i][2]]
        /\ \A i \in 1..Len(BillEndpoints) :
              LET key == BillEndpoints[i][1] IN
              record[FieldOfKey(key)] = decode(key, fetched[key]).val

\* C28 (enrichment is all-or-nothing): when add_bill_details or
\* get_amendment_details has raised, the nested collections of the record are
\* those it had before the call and full_text is unchanged.
C28_EnrichmentAllOrNothing ==
    ePc = "raised" => (record = constructed(eKind) /\ full_text = "")

\* C29 (full_text is a string): when the call has returned, full_text is the
\* text of the first "Formatted Text" format if text_versions has one and the
\* empty string otherwise, never None; at most one document is fetched.
C29_FullTextIsString ==
    /\ textFetches <= 1
    /\ ePc = "returned" =>
          /\ full_text # "None"
          /\ full_text = IF HasFormatted(record["text_versions"]) THEN "visible text"
                                                                  ELSE ""

\* C18 (identity is immutable): once the record exists, no step of
\* add_bill_details, get_amendment_details or add_full_text, ending well or
\* in an exception, changes its congress, type or number.
C18_IdentityImmutable ==
    [][eKind # "none" => identity' = identity]_vars

\* add_bill_details made all its requests and assignments and add_full_text
\* then raised.
C18_Witness ==
    /\ eKind = "bill" /\ ePc = "raised" /\ eError = "Exception"
    /\ Len(eReqs) = Len(BillEndpoints) /\ identity \in Identities

\* C24 (fan-out completes before assembly): while sub-resources are being
\* fetched no nested collection has been assigned and no full text been asked
\* for; assignment, full-text resolution and the return come only after every
\* endpoint of the table has been requested and answered; and the step that
\* returns is the one that assigns full_text.
C24_FanOutBeforeAssembly ==
    /\ [](/\ ePc = "fetch" =>
                (record = constructed(eKind) /\ textFetches = 0 /\ full_text = "")
          /\ (ePc \in {"assign", "full_text", "returned"} \/ textFetches > 0) =>
                /\ eReqs = [i \in 1..Len(Endpoints(eKind)) |-> Endpoints(eKind)[i][2]]
                /\ DOMAIN fetched =
                      {Endpoints(eKind)[i][1] : i \in 1..Len(Endpoints(eKind))}
          /\ ePc \in {"assign", "full_text"} => (textFetches = 0 /\ full_text = ""))
    /\ [][(ePc' = "returned" /\ ePc # "returned") =>
            (ePc = "full_text" /\ full_text' # full_text)]_vars

\* get_amendment_details has returned with the text of a formatted version.
C24_Witness ==
    /\ eKind = "amendment" /\ ePc = "returned" /\ full_text = "visible text"
    /\ textFetches = 1

\* ---------------------------------------------- properties of the transport
\* C10 as stated: one request takes at most 3 attempts, and an attempt is
\* repeated only after a transport error or a 500, 502 or 504.
C10_ThreeAttempts ==
    /\ Len(outcomes) <= 3
    /\ \A i \in 1..(Len(outcomes) - 1) :
          outcomes[i].status \in {TransportError, 500, 502, 504}

\* C10 amended: a request through the document session takes at most one
\* attempt plus `retries` repetitions, a request through the client session
\* exactly one attempt; an attempt is repeated only after a transport error, a
\* 500, 502 or 504, or a 413, 429 or 503 that carries a Retry-After header.
C10_BoundedRetry ==
    /\ session = "doc" => Len(outcomes) <= retries + 1
    /\ session = "client" => Len(outcomes) <= 1
    /\ \A i \in 1..(Len(outcomes) - 1) :
          \/ outcomes[i].status \in {TransportError, 500, 502, 504}
          \/ outcomes[i].status \in {413, 429, 503} /\ outcomes[i].retry_after
    /\ httpPc = "sending" /\ Len(outcomes) >= 1 =>
          \/ Last(outcomes).status \in {TransportError, 500, 502, 504}
          \/ Last(outcomes).status \in {413, 429, 503} /\ Last(outcomes).retry_after

\* The document session used its last repetition on a 500 and returned it.
C10_Witness ==
    /\ session = "doc" /\ httpPc = "responded"
    /\ Len(outcomes) = retries + 1 /\ Last(outcomes).status = 500

\* ------------------------------------------------ properties of the resolver
\* C5 (resolution idempotence): over the life of one artifact session_get is
\* called at most once, and every later resolution returns what the first
\* returned.
C5_ResolveOnce ==
    /\ fetches <= 1
    /\ (docPc = "rest" /\ resolutions >= 2) => returned = firstReturned

\* C12 (terminal document failure is not fatal): no exception escapes a document
\* resolution, neither from extract_text_from_pdf / model_post_init nor from
\* add_full_text, and a resolution that ended in terminal failure returned the
\* empty string, which is then the artifact's text.
C12_DocumentFailureNotFatal ==
    /\ docPc # "failed"
    /\ (docPc = "rest" /\ terminal) =>
          (returned = "" /\ (caller = "model_post_init" => text = ""))
    /\ ~(ePc = "raised" /\ eError = "Exception")

\* C13 (scratch-file cleanup): when a resolution is over, by a return or by an
\* exception, no downloaded file is left in the scratch directory ./tmp.
C13_ScratchCleanup ==
    docPc \in {"rest", "failed"} => "tmp" \notin files

\* C19 (transport failure leads to fallback): the document session gives up
\* with a transport error only when its retries are used up, or at once when
\* the body of a response breaks off; a resolution whose GET ended in either
\* way calls download_pdf exactly once; a resolution whose GET ended in 200
\* calls download_pdf never and returns what the parsing of the response body
\* gave.
C19_TransportFailureFallback ==
    /\ (session = "doc" /\ httpPc = "failed") =>
          \/ Len(outcomes) = retries + 1 /\ Last(outcomes).status = TransportError
          \/ Last(outcomes).status = ReadError
    /\ directStatus \in {TransportError, ReadError} => resDownloads <= 1
    /\ (directStatus \in {TransportError, ReadError} /\ docPc \in {"rest", "failed"}) =>
          resDownloads = 1
    /\ directStatus = 200 => resDownloads = 0
    /\ (directStatus = 200 /\ docPc = "rest") => returned \in {"body", ""}

\* A resolution whose GET ended in a transport failure has run to its end
\* through the fallback.
C19_Witness ==
    /\ directStatus = TransportError /\ docPc = "rest" /\ resDownloads = 1

\* C20 (the fallback parses what was downloaded): when the browser's download
\* has materialized, the resolution opens the path the browser saved to and,
\* unless the parsing raised, removes that same path; a resolution that
\* returns the text of a file returns the text of the downloaded one.
C20_FallbackParsesDownload ==
    /\ (docPc \in {"rest", "failed"} /\ paths.saved # "none") =>
          paths.opened = paths.saved
    /\ paths.removed # "none" => paths.removed = paths.saved
    /\ (docPc = "rest" /\ returned = "file") => paths.opened = paths.saved

\* C27 (fallback only when blocked): download_pdf is called only in a
\* resolution whose GET ended in 403 or in a transport failure; a GET that
\* ended in any other way (404, 500 after the retries, ...) leads to no
\* download.
C27_FallbackOnlyWhenBlocked ==
    resDownloads >= 1 => directStatus \in {403, TransportError, ReadError}

\* C6 (fallback trigger): a 403 is the last attempt of its GET, and a
\* resolution whose GET ended in 403 calls download_pdf exactly once.
C6_FallbackOn403 ==
    /\ \A i \in 1..Len(outcomes) :
          (session = "doc" /\ outcomes[i].status = 403) =>
              (i = Len(outcomes) /\ httpPc = "responded")
    /\ directStatus = 403 => resDownloads <= 1
    /\ (directStatus = 403 /\ docPc \in {"rest", "failed"}) => resDownloads = 1

\* A resolution whose GET ended in 403 has run to its end.
C6_Witness ==
    /\ directStatus = 403 /\ docPc = "rest" /\ resDownloads = 1 /\ fetches = 1

====
